---- MODULE Spec2Model ----
(***************************************************************************)
(* Settings resolution of fastapi-ecs: the two config.py modules           *)
(* (src/api/src/config.py, "api", and src/src/config.py, "src").           *)
(* A module import runs                                                    *)
(*     settings = AppSettings(); get_secret.cache_clear()                  *)
(* AppSettings() asks SecretManagerSource.prepare_field_value for every    *)
(* declared field, then validates; get_secret is wrapped in                *)
(* functools.lru_cache().                                                  *)
(***************************************************************************)
EXTENDS Integers, Sequences, FiniteSets, TLC

VARIABLES
    variant,        \* which config.py is imported: "api" or "src"
    environ,        \* os.environ: a function from the names that are set to their strings
    cache,          \* the lru_cache entry of get_secret
    fetched,        \* log of the executions of get_secret's body (history)
    secretCalls,    \* number of get_secret() invocations so far (history)
    pc,             \* position of the module import
    idx,            \* number of fields already handed to prepare_field_value
    data,           \* values returned by prepare_field_value, per field
    settings,       \* the module global `settings`
    error,          \* the exception that ended the import, if any
    postLoadCalls,  \* get_secret() calls made by the application after the import
    tpc             \* concurrent resolvers: position of each inside get_secret()

vars == <<variant, environ, cache, fetched, secretCalls, pc, idx, data,
          settings, error, postLoadCalls, tpc>>

----------------------------------------------------------------------------
\* Bounds of the model

MaxPostLoadCalls == 2
NumResolvers == 2

----------------------------------------------------------------------------
\* Python values: every value is a record with a type tag

PyNone == [ty |-> "none", v |-> ""]
Undefined == [ty |-> "undefined", v |-> ""]
Unset == [ty |-> "unset", v |-> ""]
PyStr(s) == [ty |-> "str", v |-> s]
PyInt(s) == [ty |-> "int", v |-> s]
PyList(s) == [ty |-> "list", v |-> s]
PyDict(items) == [ty |-> "dict", v |-> "", items |-> items]

\* The declared fields of AppSettings, in declaration order (the fields the
\* two variants share, one per declared type family).
Fields == <<"ENVIRONMENT", "JWT_ALG", "CORS_HEADERS">>
FieldSet == {Fields[i] : i \in 1..Len(Fields)}

\* field.default: every field is declared without a default, which pydantic
\* represents as PydanticUndefined.
field_default(f) == Undefined

\* The deployment modes (Environment enum of constanst.py).
Modes == {"local", "development", "production"}

\* Environment(raw): the enum lookup; anything but a member value raises ValueError.
IsEnvironmentValue(raw) == raw.ty = "str" /\ raw.v \in Modes

\* os.environ.get(name, default)
os_environ_get(env, name, default) ==
    IF name \in DOMAIN env THEN PyStr(env[name]) ELSE default

\* `not x` for the strings read from the environment
Falsy(x) == x = PyNone \/ (x.ty = "str" /\ x.v = "")

\* json.loads(s): TypeError for a non-string, the decoded value for a JSON
\* document, JSONDecodeError otherwise.
json_loads(s) ==
    IF s.ty # "str" THEN [exc |-> "TypeError", val |-> PyNone]
    ELSE IF s.v = "3600" THEN [exc |-> "none", val |-> PyInt("3600")]
    ELSE IF s.v = "[\"a\",\"b\"]" THEN [exc |-> "none", val |-> PyList("a,b")]
    ELSE [exc |-> "JSONDecodeError", val |-> PyNone]

----------------------------------------------------------------------------
\* The remote secret store

BlobChoices(f) ==
    IF f = "ENVIRONMENT" THEN {PyStr("development"), PyStr("production")}
    ELSE IF f = "JWT_ALG" THEN {PyStr("RS256")}
    ELSE {PyList("x,y")}

\* The mappings the store may hold: any subset of the fields, each with one
\* of its values.
Blobs ==
    UNION {[S -> UNION {BlobChoices(f) : f \in S}] : S \in SUBSET FieldSet}

WellTypedBlobs == {b \in Blobs : \A f \in DOMAIN b : b[f] \in BlobChoices(f)}

\* What client.get_secret_value may do: answer with a text or a binary
\* payload, or raise.
RemoteResponses ==
    [kind : {"SecretString", "SecretBinary"}, blob : WellTypedBlobs]
    \cup [kind : {"NoCredentialsError", "ParamValidationError", "ClientError"},
          blob : {<<>>}]

\* The exceptions of a failed fetch
FetchFailures ==
    {"NoCredentialsError", "ParamValidationError", "NoRegionError", "ClientError"}

\* The except clause of get_secret
Caught(v) ==
    IF v = "api"
    THEN {"ClientError", "NoCredentialsError", "ParamValidationError", "NoRegionError"}
    ELSE {"ClientError", "NoCredentialsError", "ParamValidationError"}

\* session.client(service_name="secretsmanager") without a region_name:
\* botocore raises NoRegionError when no region is configured.
RegionConfigured(env) == ~Falsy(os_environ_get(env, "AWS_DEFAULT_REGION", PyNone))

\* The try body of get_secret up to what it returns or raises
get_secret_try(v, env, resp) ==
    IF v = "api" /\ Falsy(os_environ_get(env, "AWS_DEFAULT_REGION", PyNone))
    THEN [exc |-> "none", val |-> PyNone]
    ELSE IF v = "src" /\ ~RegionConfigured(env)
    THEN [exc |-> "NoRegionError", val |-> PyNone]
    ELSE IF Falsy(os_environ_get(env, "AWS_SECRET_ID", PyNone))
    THEN [exc |-> "none", val |-> PyNone]
    ELSE IF resp.kind \in {"SecretString", "SecretBinary"}
    THEN [exc |-> "none", val |-> PyDict(resp.blob)]
    ELSE [exc |-> resp.kind, val |-> PyNone]

\* get_secret's body: the try body and its except clause
get_secret_body(v, env, resp) ==
    LET r == get_secret_try(v, env, resp) IN
    IF r.exc # "none" /\ r.exc \in Caught(v)
    THEN [exc |-> "none", val |-> PyNone]
    ELSE r

----------------------------------------------------------------------------
\* functools.lru_cache() around get_secret

Empty == [full |-> FALSE, val |-> PyNone]
Filled(val) == [full |-> TRUE, val |-> val]

\* What the wrapper stores after the body has returned `val`: every value,
\* None included (lru_store). lru_store_none_skipped is the faulty wrapper
\* that memoizes successful fetches only.
lru_store_none_skipped(c, val) == IF val = PyNone THEN c ELSE Filled(val)
lru_store(c, val) == Filled(val)

\* get_secret.cache_clear() (cache_clear_noop: the faulty one that keeps the entry)
cache_clear_noop(c) == c
cache_clear(c) == Empty

\* One get_secret() call made with cache entry c; resp is what the store
\* would answer. ran: the body's results, if it was executed.
get_secret(v, env, c, resp) ==
    IF c.full
    THEN [exc |-> "none", val |-> c.val, cache |-> c, ran |-> <<>>, calls |-> 1]
    ELSE LET b == get_secret_body(v, env, resp) IN
         IF b.exc # "none"
         THEN [exc |-> b.exc, val |-> PyNone, cache |-> c, ran |-> <<b>>, calls |-> 1]
         ELSE [exc |-> "none", val |-> b.val, cache |-> lru_store(c, b.val),
               ran |-> <<b>>, calls |-> 1]

----------------------------------------------------------------------------
\* SecretManagerSource.prepare_field_value

\* dict.get(name, default)
dict_get(d, f, default) == IF f \in DOMAIN d.items THEN d.items[f] ELSE default

\* prepare_field_value_api_env_first is the faulty resolver that, like the
\* stock environment source, takes the field from os.environ.
prepare_field_value_api_env_first(env, c, f, resp, resp2) ==
    LET g == get_secret("api", env, c, resp) IN
    [exc |-> "none", val |-> os_environ_get(env, f, field_default(f)),
     cache |-> g.cache, ran |-> g.ran, calls |-> g.calls]

prepare_field_value_api(env, c, f, resp, resp2) ==
    LET raw == os_environ_get(env, "ENVIRONMENT", PyNone) IN
    IF ~IsEnvironmentValue(raw)
    THEN [exc |-> "ValueError", val |-> PyNone, cache |-> c, ran |-> <<>>, calls |-> 0]
    ELSE IF raw.v = "local"
    THEN LET field_value == os_environ_get(env, f, field_default(f))
             d == json_loads(field_value)
         IN  IF d.exc = "none"
             THEN [exc |-> "none", val |-> d.val, cache |-> c, ran |-> <<>>, calls |-> 0]
             ELSE IF d.exc = "JSONDecodeError"
             THEN [exc |-> "none", val |-> field_value, cache |-> c, ran |-> <<>>,
                   calls |-> 0]
             ELSE [exc |-> d.exc, val |-> PyNone, cache |-> c, ran |-> <<>>, calls |-> 0]
    ELSE LET g == get_secret("api", env, c, resp) IN
         IF g.exc # "none" THEN g
         ELSE IF g.val = PyNone THEN [g EXCEPT !.val = field_default(f)]
         ELSE [g EXCEPT !.val = dict_get(g.val, f, field_default(f))]

prepare_field_value_src(env, c, f, resp, resp2) ==
    LET g == get_secret("src", env, c, resp) IN
    IF g.exc # "none" THEN g
    ELSE IF g.val = PyNone THEN [g EXCEPT !.val = field_default(f)]
    ELSE LET h == get_secret("src", env, g.cache, resp2)
             both == [h EXCEPT !.ran = g.ran \o h.ran, !.calls = g.calls + h.calls]
         IN  IF h.exc # "none" THEN both
             ELSE IF h.val = PyNone
             THEN [both EXCEPT !.exc = "AttributeError", !.val = PyNone]
             ELSE [both EXCEPT !.val = dict_get(h.val, f, field_default(f))]

prepare_field_value(v, env, c, f, resp, resp2) ==
    IF v = "api" THEN prepare_field_value_api(env, c, f, resp, resp2)
    ELSE prepare_field_value_src(env, c, f, resp, resp2)

----------------------------------------------------------------------------
\* AppSettings: type validation of the declared fields

validate_field(f, val) ==
    IF f = "ENVIRONMENT" THEN IsEnvironmentValue(val)
    ELSE IF f = "CORS_HEADERS" THEN val.ty = "list"
    ELSE val.ty = "str"

NoSettings == [bound |-> FALSE, values |-> <<>>]
NoError == [kind |-> "none", phase |-> "none", fields |-> {}]

----------------------------------------------------------------------------
\* The process environment the import may run in

EnvNames == {"ENVIRONMENT", "AWS_DEFAULT_REGION", "AWS_SECRET_ID", "JWT_ALG",
             "CORS_HEADERS"}
NotSet == "<not set>"
EnvChoices(name) ==
    IF name = "ENVIRONMENT" THEN {NotSet, "local", "development", "production", "staging"}
    ELSE IF name = "AWS_DEFAULT_REGION" THEN {NotSet, "eu-west-1"}
    ELSE IF name = "AWS_SECRET_ID" THEN {NotSet, "", "app/secret"}
    ELSE IF name = "JWT_ALG" THEN {NotSet, "HS256", "3600"}
    ELSE {NotSet, "a,b,c", "[\"a\",\"b\"]"}

Environs ==
    {[n \in {m \in EnvNames : e[m] # NotSet} |-> e[n]] :
        e \in {x \in [EnvNames -> UNION {EnvChoices(n) : n \in EnvNames}] :
                  \A n \in EnvNames : x[n] \in EnvChoices(n)}}

IsLocal == "ENVIRONMENT" \in DOMAIN environ /\ environ["ENVIRONMENT"] = "local"
NonLocal ==
    "ENVIRONMENT" \in DOMAIN environ
    /\ environ["ENVIRONMENT"] \in {"development", "production"}

\* The answers the store may give to the next get_secret() call: the store
\* is asked only on a miss, so on a hit the answer is immaterial.
Answers(c) ==
    IF c.full THEN {CHOOSE r \in RemoteResponses : TRUE} ELSE RemoteResponses

\* The log entries of the executions of get_secret's body
Logged(ran, phase) == [i \in 1..Len(ran) |-> [phase |-> phase, exc |-> ran[i].exc,
                                               val |-> ran[i].val]]

Resolvers == 1..NumResolvers

Init ==
    /\ variant \in {"api", "src"}
    /\ environ \in Environs
    /\ cache = Empty
    /\ fetched = <<>>
    /\ secretCalls = 0
    /\ pc = "init"
    /\ idx = 0
    /\ data = [f \in FieldSet |-> Unset]
    /\ settings = NoSettings
    /\ error = NoError
    /\ postLoadCalls = 0
    /\ tpc = [t \in Resolvers |-> "idle"]

----------------------------------------------------------------------------
\* The module import, statement by statement

\* The statements before the class definitions: the src variant creates a
\* secretsmanager client at module level, outside any try.
ModuleInit ==
    /\ pc = "init"
    /\ IF variant = "src" /\ ~RegionConfigured(environ)
       THEN /\ pc' = "crashed"
            /\ error' = [kind |-> "NoRegionError", phase |-> "init", fields |-> {}]
       ELSE /\ pc' = "resolve"
            /\ error' = error
    /\ UNCHANGED <<variant, environ, cache, fetched, secretCalls, idx, data, settings,
                   postLoadCalls, tpc>>

\* settings = AppSettings(): the settings source hands the next declared
\* field to prepare_field_value. A ValueError is wrapped into a SettingsError
\* naming the field; any other exception propagates as it is.
ResolveField ==
    /\ pc = "resolve"
    /\ idx < Len(Fields)
    /\ \E resp \in Answers(cache), resp2 \in Answers(cache) :
         LET f == Fields[idx + 1]
             r == prepare_field_value(variant, environ, cache, f, resp, resp2)
         IN  /\ cache' = r.cache
             /\ fetched' = fetched \o Logged(r.ran, "load")
             /\ secretCalls' = secretCalls + r.calls
             /\ IF r.exc = "none"
                THEN /\ data' = [data EXCEPT ![f] = r.val]
                     /\ idx' = idx + 1
                     /\ pc' = IF idx + 1 = Len(Fields) THEN "validate" ELSE "resolve"
                     /\ error' = error
                ELSE /\ pc' = "crashed"
                     /\ error' = IF r.exc = "ValueError"
                                 THEN [kind |-> "SettingsError", phase |-> "resolve",
                                       fields |-> {f}]
                                 ELSE [kind |-> r.exc, phase |-> "resolve", fields |-> {}]
                     /\ UNCHANGED <<data, idx>>
    /\ UNCHANGED <<variant, environ, settings, postLoadCalls, tpc>>

\* settings = AppSettings(): validation of the collected values. Either the
\* object is built and bound, or a ValidationError naming every failing
\* field is raised and nothing is bound.
Validate ==
    /\ pc = "validate"
    /\ LET bad == {f \in FieldSet : ~validate_field(f, data[f])} IN
       IF bad = {}
       THEN /\ settings' = [bound |-> TRUE, values |-> data]
            /\ pc' = "clear"
            /\ error' = error
       ELSE /\ pc' = "crashed"
            /\ error' = [kind |-> "ValidationError", phase |-> "validate", fields |-> bad]
            /\ settings' = settings
    /\ UNCHANGED <<variant, environ, cache, fetched, secretCalls, idx, data,
                   postLoadCalls, tpc>>

\* get_secret.cache_clear(): the last statement of the module
CacheClear ==
    /\ pc = "clear"
    /\ cache' = cache_clear(cache)
    /\ pc' = "imported"
    /\ UNCHANGED <<variant, environ, fetched, secretCalls, idx, data, settings, error,
                   postLoadCalls, tpc>>

\* The application calls get_secret() after the import
AppGetSecret ==
    /\ pc = "imported"
    /\ postLoadCalls < MaxPostLoadCalls
    /\ \E resp \in Answers(cache) :
         LET r == get_secret(variant, environ, cache, resp) IN
           /\ cache' = r.cache
           /\ fetched' = fetched \o Logged(r.ran, "app")
           /\ secretCalls' = secretCalls + r.calls
    /\ postLoadCalls' = postLoadCalls + 1
    /\ UNCHANGED <<variant, environ, pc, idx, data, settings, error, tpc>>

Next == ModuleInit \/ ResolveField \/ Validate \/ CacheClear \/ AppGetSecret

Spec == Init /\ [][Next]_vars

----------------------------------------------------------------------------
\* Several resolvers calling get_secret() at the same time. The lru_cache
\* wrapper looks the entry up, calls the function on a miss without holding
\* any lock, and stores the result when the function has returned.

InFlight == Cardinality({t \in Resolvers : tpc[t] = "calling"})

LruLookup(t) ==
    /\ tpc[t] = "idle"
    /\ secretCalls' = secretCalls + 1
    /\ tpc' = [tpc EXCEPT ![t] = IF cache.full THEN "returned" ELSE "calling"]
    /\ UNCHANGED <<variant, environ, cache, fetched, pc, idx, data, settings, error,
                   postLoadCalls>>

LruCallAndStore(t) ==
    /\ tpc[t] = "calling"
    /\ \E resp \in RemoteResponses :
         LET b == get_secret_body(variant, environ, resp) IN
           /\ fetched' = fetched \o Logged(<<b>>, "resolver")
           /\ IF b.exc # "none"
              THEN /\ cache' = cache
                   /\ tpc' = [tpc EXCEPT ![t] = "raised"]
              ELSE /\ cache' = lru_store(cache, b.val)
                   /\ tpc' = [tpc EXCEPT ![t] = "returned"]
    /\ UNCHANGED <<variant, environ, secretCalls, pc, idx, data, settings, error,
                   postLoadCalls>>

NextConc == \E t \in Resolvers : LruLookup(t) \/ LruCallAndStore(t)

SpecConc == Init /\ [][NextConc]_vars

----------------------------------------------------------------------------
\* Properties

PreClear == pc \in {"init", "resolve", "validate", "clear", "crashed"}

\* The memoized outcome of the load's fetch decides a field as
\* prepare_field_value's secret branch describes it.
FromSecret(outcome, f) ==
    IF outcome.ty = "dict" /\ f \in DOMAIN outcome.items
    THEN outcome.items[f]
    ELSE field_default(f)

\* Resolution went through the secret store (the src variant has no local branch)
ViaSecret == variant = "src" \/ NonLocal

\* Field f has no value in the source its resolution reads
Unresolved(f) ==
    \/ variant = "api" /\ IsLocal /\ f \notin DOMAIN environ
    \/ ViaSecret /\ Len(fetched) >= 1 /\ FromSecret(fetched[1].val, f) = Undefined

\* C1: before get_secret.cache_clear() runs, however many fields have been
\* resolved (and however many get_secret() calls that took), the body of
\* get_secret has been executed at most once, whether it returned a blob or None.
C1_FetchAtMostOnce == PreClear => Len(fetched) <= 1

C1_Witness ==
    /\ variant = "src"
    /\ NonLocal
    /\ idx = Len(Fields)
    /\ secretCalls = 2 * Len(Fields)
    /\ Len(fetched) = 1

\* C2: in local mode no get_secret() call is made and the body of get_secret
\* is never executed during the settings load.
C2_LocalNeverFetches ==
    (IsLocal /\ postLoadCalls = 0) => (secretCalls = 0 /\ fetched = <<>>)

\* C3: in development or production mode every resolved field holds the
\* declared default when the memoized outcome is None or lacks the field, and
\* otherwise exactly the blob's value; the field's environment value plays no part.
C3_SecretOnly ==
    NonLocal =>
        \A i \in 1..idx :
            /\ Len(fetched) >= 1
            /\ data[Fields[i]] = FromSecret(fetched[1].val, Fields[i])

C3_Witness ==
    /\ NonLocal
    /\ idx = Len(Fields)
    /\ "JWT_ALG" \in DOMAIN environ
    /\ environ["JWT_ALG"] = "HS256"
    /\ data["JWT_ALG"] = PyStr("RS256")
    /\ data["CORS_HEADERS"] = Undefined

\* C4: no failure of the secret fetch (missing region, missing secret id,
\* NoCredentials, NoRegion, ParamValidation, ClientError) ends the import
\* with that exception.
C4_FetchNeverCrashes == pc = "crashed" => error.kind \notin FetchFailures

\* C5: the settings object is bound only with every field validated, and a
\* load in which a required field has no value ends with an error naming
\* that field.
C5_AtomicNamedFailure ==
    /\ settings.bound => \A f \in FieldSet : validate_field(f, settings.values[f])
    /\ \A f \in FieldSet :
         (pc \in {"clear", "imported", "crashed"} /\ error.phase # "init" /\ Unresolved(f))
            => (pc = "crashed" /\ f \in error.fields)

\* C6: once the import is complete (the settings object is available to the
\* application) the cache entry is empty until the application calls
\* get_secret() itself, and such a call executes the body again.
C6_ClearedAfterLoad ==
    pc = "imported" =>
        /\ postLoadCalls = 0 => cache = Empty
        /\ postLoadCalls >= 1 => \E i \in 1..Len(fetched) : fetched[i].phase = "app"

C6_Witness ==
    /\ pc = "imported"
    /\ postLoadCalls = 1
    /\ Len(fetched) = 2
    /\ fetched[1].val.ty = "dict"
    /\ fetched[2].phase = "app"

\* C7: in local mode (api variant) resolving a field never raises, and the
\* resolved value is the decoded environment value, or the raw one when it
\* does not decode.
C7_LocalNeverRaises ==
    (variant = "api" /\ IsLocal) => ~(pc = "crashed" /\ error.phase = "resolve")

\* C8: with several resolvers inside get_secret() at once, at most one
\* execution of the body is in flight and at most one is ever executed.
C8_SingleFlight == InFlight <= 1 /\ Len(fetched) <= 1

\* C9: the ENVIRONMENT held by the settings object equals the process's
\* ENVIRONMENT variable, the mode that chose the resolution branch.
C9_ModeAgrees ==
    (settings.bound /\ "ENVIRONMENT" \in DOMAIN environ
        /\ environ["ENVIRONMENT"] \in Modes)
    => settings.values["ENVIRONMENT"].v = environ["ENVIRONMENT"]

\* C10: no terminal state of the import, failed or successful, has a
\* decrypted blob in the cache.
C10_NoBlobAtEnd ==
    (pc \in {"crashed", "imported"} /\ postLoadCalls = 0)
    => ~(cache.full /\ cache.val.ty = "dict")

====
